---- MODULE Spec2Model ----
(***************************************************************************)
(* A model of the `sealed` crate (src/src/sealed.rs): a typed,             *)
(* authenticated-encryption envelope Sealed<T> and the decrypted buffer    *)
(* Opened<T> that is zeroed when dropped.                                  *)
(*                                                                         *)
(* The crate's own code (xor_bytes, send_sk, seal, seal_precomputed, open, *)
(* open_precomputed, Opened::deserialize, Drop for Opened, the derives and *)
(* the big-endian codec configuration) is translated from the source.      *)
(* The primitives it imports from rust_sodium and bincode are not part of  *)
(* the repository; they are modelled by small stand-ins that keep the      *)
(* structure the crate relies on:                                          *)
(*   - X25519 key agreement:  Diffie-Hellman in a small prime-order group, *)
(*     with libsodium's scalar clamping and its masking of the top bit of  *)
(*     the peer's public key;                                              *)
(*   - XSalsa20-Poly1305:  a keystream XOR with a detached polynomial tag  *)
(*     over (key, nonce, ciphertext), verified before decryption;          *)
(*   - gen_nonce:  a stream of pairwise distinct nonces (a CSPRNG          *)
(*     idealised as never repeating);                                      *)
(*   - bincode:  fixed-width integers and u64-length-prefixed sequences in *)
(*     the configured byte order.                                          *)
(***************************************************************************)
EXTENDS Integers, Sequences, FiniteSets, TLC

\* ------------------------------------------------------------------ sizes

\* [u8; 32]: PublicKey, SecretKey, PrecomputedKey
KEYBYTES == 32
\* Nonce
NONCEBYTES == 24
\* Tag
MACBYTES == 16

\* ----------------------------------------------------------------- bounds

\* number of key pairs gen_keypair has handed out
NumKeys == 2
\* longest Vec<u8> payload
MaxVecLen == 1
\* sealing calls in one behaviour of SealSpec
MaxSeals == 2
\* slots of the allocator that hold Opened buffers
MaxBufs == 2

\* ------------------------------------------------------------ byte arrays

RECURSIVE BitXor(_, _, _)
BitXor(a, b, n) ==
    IF n = 0 THEN 0
    ELSE (((a % 2) + (b % 2)) % 2) + (2 * BitXor(a \div 2, b \div 2, n - 1))

XorTable == [a \in 0..15 |-> [b \in 0..15 |-> BitXor(a, b, 4)]]

\* *s ^= p on two u8
XorByte(a, b) ==
    (16 * XorTable[a \div 16][b \div 16]) + XorTable[a % 16][b % 16]

\* the array with bit k (0 = lowest bit of the first byte) inverted
FlipBit(bs, k) ==
    [bs EXCEPT ![(k \div 8) + 1] = XorByte(@, 2 ^ (k % 8))]

\* xor_bytes with `*s |= p` for `*s ^= p`
xor_bytes_or(a, b) ==
    [i \in 1..KEYBYTES |->
        (a[i] + b[i]) - (((a[i] + b[i]) - XorByte(a[i], b[i])) \div 2)]

\* fn xor_bytes(mut a: [u8; 32], b: &[u8; 32]) -> [u8; 32]
xor_bytes(a, b) == [i \in 1..KEYBYTES |-> XorByte(a[i], b[i])]

\* send_sk that returns the shared secret as it is
send_sk_no_fold(shared_secret, source_pk) == shared_secret

\* fn send_sk(shared_secret, source_pk): the key used when sending from
\* source_pk
send_sk(shared_secret, source_pk) == xor_bytes(shared_secret, source_pk)

\* ------------------------------------------- rust_sodium::crypto::box_

\* the stand-in group: the order-GroupOrder subgroup of the integers modulo
\* FieldPrime = 2 * GroupOrder + 1, generated by Generator
FieldPrime == 46199
GroupOrder == 23099
Generator == 4

\* b^e modulo m, for m < 46341
RECURSIVE ModPow(_, _, _)
ModPow(b, e, m) ==
    IF e = 0 THEN 1
    ELSE LET h == ModPow(b, e \div 2, m)
             s == (h * h) % m
         IN  IF e % 2 = 1 THEN (s * b) % m ELSE s

\* the sum of s[lo..hi]
RECURSIVE SumRange(_, _, _)
SumRange(s, lo, hi) ==
    IF lo > hi THEN 0
    ELSE IF lo = hi THEN s[lo]
    ELSE LET mid == (lo + hi) \div 2
         IN  SumRange(s, lo, mid) + SumRange(s, mid + 1, hi)

\* the powers of 256 modulo the group's two moduli
Pow256Field == [i \in 1..KEYBYTES |-> ModPow(256, i - 1, FieldPrime)]
Pow256Order == [i \in 1..KEYBYTES |-> ModPow(256, i - 1, GroupOrder)]

\* the little-endian value of a 32-byte array modulo m (w: the powers of 256
\* modulo m)
LEMod(bs, w, m) ==
    SumRange([i \in 1..KEYBYTES |-> bs[i] * w[i]], 1, KEYBYTES) % m

ModExp(b, e) == ModPow(b, e, FieldPrime)

\* crypto_scalarmult_curve25519: e[0] &= 248; e[31] &= 127; e[31] |= 64
clamp(sk) ==
    [sk EXCEPT ![1] = @ - (@ % 8), ![KEYBYTES] = 64 + (@ % 64)]

ScalarOf(sk) == LEMod(clamp(sk), Pow256Order, GroupOrder)

\* the peer's public key as a group element; its top bit is ignored
PointOf(pk) == LEMod([pk EXCEPT ![KEYBYTES] = @ % 128], Pow256Field, FieldPrime)

EncodePoint(y) ==
    [i \in 1..KEYBYTES |-> IF i = 1 THEN y % 256
                           ELSE IF i = 2 THEN y \div 256 ELSE 0]

\* SecretKey::public_key (crypto_scalarmult_base)
public_key(sk) == EncodePoint(ModExp(Generator, ScalarOf(sk)))

\* HSalsa20 of the shared point: an injective expansion to 32 bytes
HSalsa(y) ==
    [i \in 1..KEYBYTES |-> ((y * ((2 * i) + 1)) + ((y \div 256) * i) + (31 * i)) % 256]

\* box_::precompute (crypto_box_beforenm)
precompute(pk, sk) == HSalsa(ModExp(PointOf(pk), ScalarOf(sk)))

\* the secret key of the seed-th gen_keypair() call
SecretKeyOf(seed) ==
    [i \in 1..KEYBYTES |-> ((seed * 89) + (i * i * 7) + (seed * i * 13)) % 256]

\* the n-th value gen_nonce() returns
NonceAt(n) ==
    [i \in 1..NONCEBYTES |-> ((n * (101 + i)) + (29 * i)) % 256]

\* the moduli and the evaluation points of the tag and of the keystream
TagPrime1 == 46337
TagPrime2 == 46327
StreamPrime == 46309
MaxData == 128
TagPowers1 == [i \in 1..MaxData |-> ModPow(263, i, TagPrime1)]
TagPowers2 == [i \in 1..MaxData |-> ModPow(269, i, TagPrime2)]
StreamPowers == [i \in 1..MaxData |-> ModPow(257, i, StreamPrime)]

\* the polynomial with coefficients bs evaluated modulo m (Poly1305's shape,
\* with a small modulus; w: the powers of the evaluation point)
Poly(bs, w, m) ==
    SumRange([i \in 1..Len(bs) |-> (bs[i] + 1) * w[i]], 1, Len(bs)) % m

\* the detached tag over (key, nonce, ciphertext)
Tag(c, nonce, key) ==
    LET d  == key \o nonce \o c
        h1 == Poly(d, TagPowers1, TagPrime1)
        h2 == Poly(d, TagPowers2, TagPrime2)
    IN  [i \in 1..MACBYTES |->
            IF i = 1 THEN h1 % 256
            ELSE IF i = 2 THEN h1 \div 256
            ELSE IF i = 3 THEN h2 % 256
            ELSE IF i = 4 THEN h2 \div 256
            ELSE (h1 + (i * h2)) % 256]

\* the cipher's keystream for (key, nonce)
KeyStream(nonce, key, n) ==
    LET s == Poly(key \o nonce, StreamPowers, StreamPrime)
    IN  [i \in 1..n |-> ((s * i) + (s \div 256) + i) % 256]

XorStream(bs, nonce, key) ==
    LET ks == KeyStream(nonce, key, Len(bs))
    IN  [i \in 1..Len(bs) |-> XorByte(bs[i], ks[i])]

\* box_::seal_detached_precomputed(&mut m, &nonce, &key) -> Tag: encrypts m
\* in place and returns the tag
seal_detached_precomputed(m, nonce, key) ==
    LET c == XorStream(m, nonce, key)
    IN  [c |-> c, tag |-> Tag(c, nonce, key)]

\* box_::open_detached_precomputed(&mut c, &tag, &nonce, &key) -> Result:
\* verifies the tag, and only then decrypts c in place
open_detached_precomputed(c, tag, nonce, key) ==
    IF Tag(c, nonce, key) = tag
    THEN [ok |-> TRUE, m |-> XorStream(c, nonce, key)]
    ELSE [ok |-> FALSE, m |-> c]

\* ---------------------------------------------------------------- bincode

\* the payload types T of the model
Types == {"u16", "vec_u8"}

\* byte k (0 = least significant) of n < 2^31
Digit(n, k) == IF k >= 4 THEN 0 ELSE (n \div (256 ^ k)) % 256

\* a w-byte unsigned integer in byte order cfg
IntBytes(cfg, n, w) ==
    [i \in 1..w |-> IF cfg = "big" THEN Digit(n, w - i) ELSE Digit(n, i - 1)]

\* the value of w <= 8 bytes in byte order cfg; -1 when it exceeds 2^24
IntValue(cfg, bs) ==
    LET w  == Len(bs)
        at(k) == IF cfg = "big" THEN bs[w - k] ELSE bs[k + 1]
    IN  IF \E k \in 3..(w - 1) : at(k) # 0 THEN -1
        ELSE (IF w > 0 THEN at(0) ELSE 0)
             + (IF w > 1 THEN 256 * at(1) ELSE 0)
             + (IF w > 2 THEN 65536 * at(2) ELSE 0)

\* Config::serialize: a u16 is 2 bytes; a Vec<u8> is its u64 length and its
\* bytes; a sequence of unknown length ("iter") cannot be encoded
encode(cfg, v) ==
    CASE v.ty = "u16"    -> [ok |-> TRUE, bytes |-> IntBytes(cfg, v.val, 2)]
      [] v.ty = "vec_u8" -> [ok |-> TRUE,
                             bytes |-> IntBytes(cfg, Len(v.val), 8) \o v.val]
      [] OTHER           -> [ok |-> FALSE, err |-> "SequenceMustHaveLength"]

\* Config::deserialize::<T> from a slice; bytes after the value are ignored
decode(cfg, ty, bs) ==
    IF ty = "u16"
    THEN IF Len(bs) < 2 THEN [ok |-> FALSE, err |-> "UnexpectedEof"]
         ELSE [ok |-> TRUE,
               value |-> [ty |-> "u16", val |-> IntValue(cfg, SubSeq(bs, 1, 2))]]
    ELSE IF Len(bs) < 8 THEN [ok |-> FALSE, err |-> "UnexpectedEof"]
         ELSE LET n == IntValue(cfg, SubSeq(bs, 1, 8))
              IN  IF n < 0 \/ n > Len(bs) - 8
                  THEN [ok |-> FALSE, err |-> "UnexpectedEof"]
                  ELSE [ok |-> TRUE,
                        value |-> [ty |-> "vec_u8", val |-> SubSeq(bs, 9, 8 + n)]]

\* fn bincode_cfg_be(): cfg.big_endian()
bincode_cfg_be == "big"

\* fn serialize_be<T: Serialize>(t: &T) -> bincode::Result<Vec<u8>>
serialize_be(t) == encode(bincode_cfg_be, t)

\* deserialize_be with bincode's default (little-endian) configuration
deserialize_le(ty, bs) == decode("little", ty, bs)

\* fn deserialize_be<T: DeserializeOwned>(bs: &[u8]) -> bincode::Result<T>
deserialize_be(ty, bs) == decode(bincode_cfg_be, ty, bs)

\* ------------------------------------------------------------ the crate

None == [some |-> FALSE]
Some(x) == [some |-> TRUE, val |-> x]

\* gen_nonce(), called when the generator has been called n times before
gen_nonce(n) == NonceAt(n)

\* seal_precomputed that seals an empty plaintext when serialization fails
seal_precomputed_lenient(source_pk, shared_secret, plaintext, n) ==
    LET ser   == serialize_be(plaintext)
        bytes == IF ser.ok THEN ser.bytes ELSE <<>>
        shared_send_secret == send_sk(shared_secret, source_pk)
        nonce == gen_nonce(n)
        enc   == seal_detached_precomputed(bytes, nonce, shared_send_secret)
    IN  [ok |-> TRUE,
         val |-> [source_pk  |-> source_pk,
                  nonce      |-> nonce,
                  mac        |-> enc.tag,
                  cyphertext |-> enc.c,
                  _spook     |-> plaintext.ty]]

\* seal_precomputed that uses one nonce for every call
seal_precomputed_fixed_nonce(source_pk, shared_secret, plaintext, n) ==
    LET ser == serialize_be(plaintext)
    IN  IF ~ser.ok THEN [ok |-> FALSE, err |-> ser.err]
        ELSE LET shared_send_secret == send_sk(shared_secret, source_pk)
                 nonce == gen_nonce(0)
                 enc   == seal_detached_precomputed(
                              ser.bytes, nonce, shared_send_secret)
             IN  [ok |-> TRUE,
                  val |-> [source_pk  |-> source_pk,
                           nonce      |-> nonce,
                           mac        |-> enc.tag,
                           cyphertext |-> enc.c,
                           _spook     |-> plaintext.ty]]

\* Sealed::seal_precomputed(source_pk, shared_secret, plaintext), called
\* when gen_nonce has been called n times before
seal_precomputed(source_pk, shared_secret, plaintext, n) ==
    LET ser == serialize_be(plaintext)
    IN  IF ~ser.ok THEN [ok |-> FALSE, err |-> ser.err]
        ELSE LET shared_send_secret == send_sk(shared_secret, source_pk)
                 nonce == gen_nonce(n)
                 enc   == seal_detached_precomputed(
                              ser.bytes, nonce, shared_send_secret)
             IN  [ok |-> TRUE,
                  val |-> [source_pk  |-> source_pk,
                           nonce      |-> nonce,
                           mac        |-> enc.tag,
                           cyphertext |-> enc.c,
                           _spook     |-> plaintext.ty]]

\* Sealed::seal(destination_pk, source_sk, plaintext)
seal(destination_pk, source_sk, plaintext, n) ==
    LET shared_secret == precompute(destination_pk, source_sk)
        source_pk     == public_key(source_sk)
    IN  seal_precomputed(source_pk, shared_secret, plaintext, n)

\* open_precomputed that decrypts without looking at the verdict
open_precomputed_unverified(self, shared_secret) ==
    LET shared_send_secret == send_sk(shared_secret, self.source_pk)
    IN  Some([plaintext |-> XorStream(self.cyphertext, self.nonce,
                                      shared_send_secret),
              _spook |-> self._spook])

\* open_precomputed that hands the buffer back when verification fails
open_precomputed_leaky(self, shared_secret) ==
    LET shared_send_secret == send_sk(shared_secret, self.source_pk)
        dec == open_detached_precomputed(
                   self.cyphertext, self.mac, self.nonce, shared_send_secret)
    IN  Some([plaintext |-> dec.m, _spook |-> self._spook])

\* open_precomputed that decrypts with the shared secret itself
open_precomputed_no_rederive(self, shared_secret) ==
    LET dec == open_detached_precomputed(
                   self.cyphertext, self.mac, self.nonce, shared_secret)
    IN  IF ~dec.ok THEN None
        ELSE Some([plaintext |-> dec.m, _spook |-> self._spook])

\* Sealed::open_precomputed(self, shared_secret) -> Option<Opened<T>>
open_precomputed(self, shared_secret) ==
    LET shared_send_secret == send_sk(shared_secret, self.source_pk)
        dec == open_detached_precomputed(
                   self.cyphertext, self.mac, self.nonce, shared_send_secret)
    IN  IF ~dec.ok THEN None
        ELSE Some([plaintext |-> dec.m, _spook |-> self._spook])

\* Sealed::open(self, destination_sk) -> Option<Opened<T>>
open(self, destination_sk) ==
    LET shared_secret == precompute(self.source_pk, destination_sk)
    IN  open_precomputed(self, shared_secret)

\* Opened::deserialize(&self) -> bincode::Result<T>
deserialize(self) == deserialize_be(self._spook, self.plaintext)

\* drop that empties the vector (Vec::clear) and leaves its bytes in memory
drop_clear(self) == self

\* impl Drop for Opened: for b in self.plaintext.iter_mut() { *b = 0 }
drop(self) == [self EXCEPT !.plaintext = [i \in 1..Len(@) |-> 0]]

\* ---------------------------------------------------------------- inputs

\* the secret keys gen_keypair has handed out, and their public keys
SecretKeys == {SecretKeyOf(seed) : seed \in 1..NumKeys}
PublicKeys == {public_key(sk) : sk \in SecretKeys}

\* the shared secrets of the pairs of parties
SharedSecrets == {precompute(public_key(a), b) : a, b \in SecretKeys}

\* the secret keys a caller may try to open with: the parties' keys and
\* every key that differs from one of them in a single bit
OpenKeys ==
    SecretKeys \cup {FlipBit(sk, k) : sk \in SecretKeys, k \in 0..(8 * KEYBYTES - 1)}

\* the plaintexts: a u16, the Vec<u8> up to MaxVecLen, and a sequence whose
\* length is not known when it is serialized
Plaintexts ==
    {[ty |-> "u16", val |-> 258]}
    \cup {[ty |-> "vec_u8", val |-> [i \in 1..k |-> 64 + i]] : k \in 0..MaxVecLen}
    \cup {[ty |-> "iter", val |-> <<>>]}

\* the byte strings a caller may deserialize an Opened from
ForeignBytes == {<<1, 2>>, <<0, 0, 0, 0, 0, 0, 0, 1, 7, 9>>}

Fields == {"source_pk", "nonce", "mac", "cyphertext"}

\* ----------------------------------------------------------------- state

VARIABLES
    phase,     \* "start", "sealed" (an envelope is held) or "opened"
    rng,       \* how many times gen_nonce has been called
    sealed,    \* the Sealed<T> value in hand, if any
    sealRet,   \* the last sealing call: its plaintext and what it returned
    made,      \* how the envelope was sealed (its inputs, its derived key)
    log,       \* the (derived key, nonce) of every envelope produced
    changed,   \* what happened to the envelope between seal and open
    openCall,  \* the last opening call: the function, the envelope, the key
    openRet,   \* what it returned: None, or Some(slot of the Opened)
    slots,     \* the Opened<T> values: unused, live, or freed memory
    deRet,     \* the last Opened::deserialize call and what it returned
    kd         \* a key derivation on its own: its inputs and its outputs

vars == <<phase, rng, sealed, sealRet, made, log, changed, openCall, openRet,
          slots, deRet, kd>>

sealVars == <<rng, sealed, sealRet, made, log>>
openVars == <<openCall, openRet>>

Unused == [state |-> "unused", plaintext |-> <<>>, _spook |-> "u16",
           origin |-> "none", born |-> <<>>, verified |-> FALSE]

\* a new Opened<T> value: born holds its bytes at creation, verified whether
\* they passed tag verification
NewOpened(o, origin, verified) ==
    [state |-> "live", plaintext |-> o.plaintext, _spook |-> o._spook,
     origin |-> origin, born |-> o.plaintext, verified |-> verified]

\* nothing has been sealed, opened or allocated
Idle ==
    /\ phase = "start"
    /\ rng = 0
    /\ sealed = None
    /\ sealRet = None
    /\ made = None
    /\ log = <<>>
    /\ changed = None
    /\ openCall = None
    /\ openRet = None
    /\ slots = [i \in 1..MaxBufs |-> Unused]
    /\ deRet = None

Init == Idle /\ kd = None

\* ---------------------------------------------------------------- sealing

\* the state after a sealing call returned r
Sealing(fn, r, plaintext, how) ==
    /\ sealRet' = Some([fn |-> fn, plaintext |-> plaintext, ret |-> r])
    /\ IF r.ok
       THEN /\ sealed' = Some(r.val)
            /\ made' = Some(how)
            /\ rng' = rng + 1
            /\ log' = Append(log, [key |-> how.key, nonce |-> r.val.nonce])
            /\ phase' = "sealed"
       ELSE UNCHANGED <<sealed, made, rng, log, phase>>
    /\ UNCHANGED <<changed, openCall, openRet, slots, deRet, kd>>

\* Sealed::seal(&destination_pk, &source_sk, &plaintext)
Seal(destination_sk, source_sk, plaintext) ==
    /\ phase = "start"
    /\ rng < MaxSeals
    /\ LET destination_pk == public_key(destination_sk)
           shared_secret  == precompute(destination_pk, source_sk)
           source_pk      == public_key(source_sk)
       IN  Sealing("seal",
                   seal(destination_pk, source_sk, plaintext, rng),
                   plaintext,
                   [via |-> "seal", destination_sk |-> destination_sk,
                    source_sk |-> source_sk, source_pk |-> source_pk,
                    shared_secret |-> shared_secret,
                    key |-> send_sk(shared_secret, source_pk),
                    plaintext |-> plaintext])

\* Sealed::seal_precomputed(source_pk, shared_secret, &plaintext)
SealPrecomputed(source_pk, shared_secret, plaintext) ==
    /\ phase = "start"
    /\ rng < MaxSeals
    /\ Sealing("seal_precomputed",
               seal_precomputed(source_pk, shared_secret, plaintext, rng),
               plaintext,
               [via |-> "seal_precomputed", source_pk |-> source_pk,
                shared_secret |-> shared_secret,
                key |-> send_sk(shared_secret, source_pk),
                plaintext |-> plaintext])

\* the envelope leaves; the caller is ready to seal again
Send ==
    /\ phase = "sealed"
    /\ phase' = "start"
    /\ sealed' = None
    /\ made' = None
    /\ UNCHANGED <<rng, sealRet, log, changed, openCall, openRet, slots, deRet, kd>>

\* ------------------------------------------------------------- in flight

\* one bit of one field of the envelope is inverted
FlipInFlight(field, bit) ==
    /\ phase = "sealed"
    /\ ~changed.some
    /\ bit < 8 * Len(sealed.val[field])
    /\ sealed' = Some([sealed.val EXCEPT ![field] = FlipBit(@, bit)])
    /\ changed' = Some([kind |-> "flip", field |-> field, bit |-> bit])
    /\ UNCHANGED <<phase, rng, sealRet, made, log, openCall, openRet, slots, deRet,
                   kd>>

\* source_pk is replaced by another public key
ReplaceSourcePk(pk) ==
    /\ phase = "sealed"
    /\ ~changed.some
    /\ pk # sealed.val.source_pk
    /\ sealed' = Some([sealed.val EXCEPT !.source_pk = pk])
    /\ changed' = Some([kind |-> "replace_pk", pk |-> pk])
    /\ UNCHANGED <<phase, rng, sealRet, made, log, openCall, openRet, slots, deRet,
                   kd>>

\* derive(Serialize, Deserialize) for Sealed<T>: the bytes of a Sealed<T>
\* are read back as a Sealed<U> (the type parameter has no bytes)
Reinterpret(ty) ==
    /\ phase = "sealed"
    /\ ~changed.some
    /\ ty # sealed.val._spook
    /\ sealed' = Some([sealed.val EXCEPT !._spook = ty])
    /\ changed' = Some([kind |-> "retype", ty |-> ty])
    /\ UNCHANGED <<phase, rng, sealRet, made, log, openCall, openRet, slots, deRet,
                   kd>>

\* ---------------------------------------------------------------- opening

FreeSlots == {i \in 1..MaxBufs : slots[i].state # "live"}

\* the state after an opening call returned r: the envelope is consumed, and
\* a returned Opened<T> lives in a slot
Opening(fn, key, r) ==
    /\ openCall' = Some([fn |-> fn, self |-> sealed.val, key |-> key])
    /\ sealed' = None
    /\ phase' = "opened"
    /\ IF r.some
       THEN \E i \in FreeSlots :
               /\ \A j \in FreeSlots : i <= j
               /\ slots' = [slots EXCEPT ![i] = NewOpened(r.val, "open", TRUE)]
               /\ openRet' = Some(i)
       ELSE /\ openRet' = None
            /\ UNCHANGED slots
    /\ UNCHANGED <<rng, sealRet, made, log, changed, deRet, kd>>

\* Sealed::open(self, &destination_sk).  One fault per conversation: a
\* changed envelope is opened with the key it was sealed for.
Open(destination_sk) ==
    /\ phase = "sealed"
    /\ changed.some =>
          /\ made.val.via = "seal"
          /\ destination_sk = made.val.destination_sk
    /\ Opening("open", destination_sk, open(sealed.val, destination_sk))

\* Sealed::open_precomputed(self, shared_secret)
OpenPrecomputed(shared_secret) ==
    /\ phase = "sealed"
    /\ changed.some => shared_secret = made.val.shared_secret
    /\ Opening("open_precomputed", shared_secret,
               open_precomputed(sealed.val, shared_secret))

\* ----------------------------------------------------------------- Opened

\* Opened::deserialize(&self)
Deserialize(i) ==
    /\ phase = "opened"
    /\ slots[i].state = "live"
    /\ deRet' = Some([slot |-> i, ret |-> deserialize(slots[i])])
    /\ UNCHANGED <<phase, sealVars, changed, openVars, slots, kd>>

\* derive(Clone) for Opened<T>
Clone(i) ==
    /\ phase = "opened"
    /\ slots[i].state = "live"
    /\ \E j \in FreeSlots :
          /\ \A k \in FreeSlots : j <= k
          /\ slots' = [slots EXCEPT
                 ![j] = NewOpened(slots[i], "clone", slots[i].verified)]
    /\ UNCHANGED <<phase, sealVars, changed, openVars, deRet, kd>>

\* derive(Deserialize) for Opened<T>: an Opened<T> is read from bytes the
\* caller supplies
DeserializeOpened(bytes, ty) ==
    /\ phase = "start"
    /\ phase' = "opened"
    /\ \E j \in FreeSlots :
          /\ \A k \in FreeSlots : j <= k
          /\ slots' = [slots EXCEPT
                 ![j] = NewOpened([plaintext |-> bytes, _spook |-> ty],
                                  "deserialize", FALSE)]
    /\ UNCHANGED <<sealVars, changed, openVars, deRet, kd>>

\* the Opened<T> in slot i goes out of scope: Drop::drop runs, then the
\* memory is released with the bytes drop left in it
Drop(i) ==
    /\ phase = "opened"
    /\ slots[i].state = "live"
    /\ slots' = [slots EXCEPT ![i] =
                    [@ EXCEPT !.plaintext = drop(slots[i]).plaintext,
                              !.state = "freed"]]
    /\ UNCHANGED <<phase, sealVars, changed, openVars, deRet, kd>>

\* ------------------------------------------------------- specifications

\* one envelope from seal to open, and the Opened values to their drop
Next ==
    \/ \E d, s \in SecretKeys : \E v \in Plaintexts : Seal(d, s, v)
    \/ \E pk \in PublicKeys : \E s \in SharedSecrets : \E v \in Plaintexts :
          SealPrecomputed(pk, s, v)
    \/ \E f \in Fields : \E b \in 0..(8 * KEYBYTES - 1) : FlipInFlight(f, b)
    \/ \E pk \in PublicKeys : ReplaceSourcePk(pk)
    \/ \E ty \in Types : Reinterpret(ty)
    \/ \E sk \in OpenKeys : Open(sk)
    \/ \E s \in SharedSecrets : OpenPrecomputed(s)
    \/ \E i \in 1..MaxBufs : Deserialize(i)
    \/ \E i \in 1..MaxBufs : Clone(i)
    \/ \E bs \in ForeignBytes : \E ty \in Types : DeserializeOpened(bs, ty)
    \/ \E i \in 1..MaxBufs : Drop(i)

Spec == Init /\ [][Next]_vars

\* a sequence of sealing calls
SealNext ==
    \/ \E d, s \in SecretKeys : \E v \in Plaintexts : Seal(d, s, v)
    \/ \E pk \in PublicKeys : \E s \in SharedSecrets : \E v \in Plaintexts :
          SealPrecomputed(pk, s, v)
    \/ Send

SealSpec == Init /\ [][SealNext]_vars

\* the public keys a key is derived under: the parties' and every one that
\* differs from pk in a single bit
NearbyPublicKeys(pk) ==
    PublicKeys \cup {FlipBit(pk, k) : k \in 0..(8 * KEYBYTES - 1)}

\* the key derivation on its own: a shared secret and two public keys
KeyInit ==
    /\ Idle
    /\ \E s \in SharedSecrets : \E pkA \in PublicKeys :
          \E pkB \in NearbyPublicKeys(pkA) :
             kd = Some([shared_secret |-> s, pkA |-> pkA, pkB |-> pkB,
                        done |-> FALSE])

\* send_sk(shared_secret, &pkA) and send_sk(shared_secret, &pkB)
DeriveKeys ==
    /\ kd.some
    /\ ~kd.val.done
    /\ kd' = Some([shared_secret |-> kd.val.shared_secret,
                   pkA |-> kd.val.pkA, pkB |-> kd.val.pkB, done |-> TRUE,
                   keyA |-> send_sk(kd.val.shared_secret, kd.val.pkA),
                   keyB |-> send_sk(kd.val.shared_secret, kd.val.pkB)])
    /\ UNCHANGED <<phase, sealVars, changed, openVars, slots, deRet>>

KeySpec == KeyInit /\ [][DeriveKeys]_vars

\* ----------------------------------------------------------------- claims

\* the last opening call was `fn` on an envelope that `via` produced
OpeningOf(via, fn) ==
    /\ openCall.some
    /\ made.some
    /\ made.val.via = via
    /\ openCall.val.fn = fn

\* the last opening call was open, with the key the envelope was sealed for
OpenedByDestination ==
    /\ OpeningOf("seal", "open")
    /\ openCall.val.key = made.val.destination_sk

IsPrefix(p, bs) == Len(p) <= Len(bs) /\ SubSeq(bs, 1, Len(p)) = p

\* some value of type ty has a canonical encoding that starts bs
Decodable(ty, bs) ==
    IF ty = "u16"
    THEN \E hi, lo \in {bs[k] : k \in 1..Len(bs)} :
            IsPrefix(<<hi, lo>>, bs)
    ELSE \E a \in 1..(Len(bs) + 1) : \E b \in 0..Len(bs) :
            IsPrefix(<<0, 0, 0, 0, 0, 0, 0, Len(SubSeq(bs, a, b))>>
                     \o SubSeq(bs, a, b), bs)

Bit(x, j) == (x \div (2 ^ j)) % 2

\* C1: round trip.  Sealing an encodable value returns an envelope; opening
\* the unchanged envelope of seal(pkD, skS, v) with skD succeeds, and every
\* deserialize of the opened value returns v.
RoundTrip ==
    /\ (sealRet.some /\ sealRet.val.plaintext.ty \in Types)
          => sealRet.val.ret.ok
    /\ (OpenedByDestination /\ ~changed.some)
          => /\ openRet.some
             /\ deRet.some
                   => /\ deRet.val.ret.ok
                      /\ deRet.val.ret.value = made.val.plaintext

\* a non-empty Vec<u8> sealed by one party for another came back
RoundTripDone ==
    /\ OpenedByDestination
    /\ ~changed.some
    /\ made.val.destination_sk # made.val.source_sk
    /\ made.val.plaintext.ty = "vec_u8"
    /\ made.val.plaintext.val # <<>>
    /\ deRet.some
    /\ deRet.val.ret.ok

\* C2: tamper detection.  An envelope of seal with one bit of cyphertext,
\* mac, nonce or source_pk inverted does not open with the destination's
\* secret key.
TamperDetected ==
    (OpenedByDestination /\ changed.some /\ changed.val.kind = "flip")
       => ~openRet.some

\* the top bit of source_pk, which the key agreement ignores, was inverted
TopBitOfSourcePkFlipped ==
    /\ OpenedByDestination
    /\ changed.some
    /\ changed.val.kind = "flip"
    /\ changed.val.field = "source_pk"
    /\ changed.val.bit = 8 * KEYBYTES - 1
    /\ ~openRet.some

\* C3, as stated: an envelope sealed for (pkD, skD) opens with no secret key
\* other than skD.
WrongKeyRejected ==
    (OpeningOf("seal", "open") /\ ~changed.some
        /\ openCall.val.key # made.val.destination_sk)
       => ~openRet.some

\* C3, amended: an envelope sealed for (pkD, skD) opens with no secret key
\* whose clamped scalar differs from skD's.
WrongScalarRejected ==
    (OpeningOf("seal", "open") /\ ~changed.some
        /\ clamp(openCall.val.key) # clamp(made.val.destination_sk))
       => ~openRet.some

\* the sender tried its own secret key on an envelope for someone else
SenderKeyRejected ==
    /\ OpeningOf("seal", "open")
    /\ ~changed.some
    /\ openCall.val.key = made.val.source_sk
    /\ clamp(made.val.source_sk) # clamp(made.val.destination_sk)
    /\ ~openRet.some

\* C4: directional key separation.  The derived key is the byte-wise XOR of
\* the shared secret and the sender's public key, and under the same shared
\* secret two different public keys give two different keys.
KeySeparation ==
    (kd.some /\ kd.val.done) =>
       LET d == kd.val
       IN  /\ \A i \in 1..KEYBYTES : \A j \in 0..7 :
                 Bit(d.keyA[i], j)
                    = (Bit(d.shared_secret[i], j) + Bit(d.pkA[i], j)) % 2
           /\ Len(d.keyA) = KEYBYTES
           /\ d.pkA # d.pkB => d.keyA # d.keyB

\* keys were derived under two public keys that differ in their last bit
KeysDerived ==
    /\ kd.some
    /\ kd.val.done
    /\ kd.val.pkB = FlipBit(kd.val.pkA, 8 * KEYBYTES - 1)
    /\ kd.val.keyA # kd.val.shared_secret

\* C5: erasure.  The memory of a dropped Opened holds only zero bytes, as
\* many as the plaintext had.
Erased ==
    \A i \in 1..MaxBufs :
       slots[i].state = "freed"
          => /\ Len(slots[i].plaintext) = Len(slots[i].born)
             /\ \A k \in 1..Len(slots[i].plaintext) : slots[i].plaintext[k] = 0

\* an Opened was dropped after its deserialize failed, and so was a second
\* Opened
ErasedOnEveryPath ==
    \E i, j \in 1..MaxBufs :
       /\ slots[i].state = "freed"
       /\ slots[j].state = "freed"
       /\ \E k \in 1..Len(slots[i].born) : slots[i].born[k] # 0
       /\ deRet.some /\ deRet.val.slot = i /\ ~deRet.val.ret.ok
       /\ j # i

\* C6: every Opened value came from open or open_precomputed and holds bytes
\* that passed tag verification.
OpenedOnlyByOpen ==
    \A i \in 1..MaxBufs :
       slots[i].state # "unused"
          => slots[i].origin = "open" /\ slots[i].verified

\* the verdict of the tag check in the opening call c
Verifies(c) ==
    LET shared_secret == IF c.fn = "open"
                         THEN precompute(c.self.source_pk, c.key)
                         ELSE c.key
    IN  open_detached_precomputed(
            c.self.cyphertext, c.self.mac, c.self.nonce,
            xor_bytes(shared_secret, c.self.source_pk)).ok

\* C7: uniform failure.  When the tag does not verify, open and
\* open_precomputed return None, whatever the cause, and no Opened value
\* (no byte of the buffer) exists.
UniformFailure ==
    (openCall.some /\ ~Verifies(openCall.val))
       => /\ openRet = None
          /\ \A i \in 1..MaxBufs : slots[i].state = "unused"

\* an inverted bit of the cyphertext made open_precomputed return None
FailedOnCorruptCyphertext ==
    /\ openCall.some
    /\ openCall.val.fn = "open_precomputed"
    /\ changed.some
    /\ changed.val.kind = "flip"
    /\ changed.val.field = "cyphertext"
    /\ openRet = None

\* C8: nothing partial.  Sealing a plaintext that cannot be encoded returns
\* the error, and no envelope, nonce or log entry is produced; deserialize of
\* bytes that no value encodes to returns an error and no value.
NothingPartial ==
    /\ (sealRet.some /\ sealRet.val.plaintext.ty \notin Types)
          => /\ ~sealRet.val.ret.ok
             /\ DOMAIN sealRet.val.ret = {"ok", "err"}
             /\ ~sealed.some
             /\ ~made.some
             /\ rng = Len(log)
    /\ deRet.some
          => LET o == slots[deRet.val.slot]
             IN  ~Decodable(o._spook, o.born)
                    => /\ ~deRet.val.ret.ok
                       /\ DOMAIN deRet.val.ret = {"ok", "err"}

\* a sealing call failed, and a deserialize call failed
BothFailed ==
    /\ sealRet.some
    /\ ~sealRet.val.ret.ok
    /\ deRet.some
    /\ ~deRet.val.ret.ok

\* C9: nonce uniqueness.  Every successful sealing call draws one nonce, and
\* no two envelopes carry the same nonce, so none do under the same key.
FreshNonces ==
    /\ rng = Len(log)
    /\ sealed.some => sealed.val.nonce = log[Len(log)].nonce
    /\ \A i, j \in 1..Len(log) :
          i < j => /\ log[i].nonce # log[j].nonce
                   /\ ~(log[i].key = log[j].key /\ log[i].nonce = log[j].nonce)

\* two envelopes were produced under one derived key
SameKeyTwice ==
    /\ Len(log) >= 2
    /\ log[1].key = log[2].key

\* C10: open re-derives the key from the embedded source_pk.  For an
\* envelope of seal_precomputed(pk, s, v), open_precomputed with s succeeds
\* while the envelope is as sealed, and fails when source_pk was replaced by
\* another public key or has a bit inverted.
DirectionsSeparated ==
    (OpeningOf("seal_precomputed", "open_precomputed")
        /\ openCall.val.key = made.val.shared_secret)
       => /\ (~changed.some \/ changed.val.kind = "retype") => openRet.some
          /\ openCall.val.self.source_pk # made.val.source_pk => ~openRet.some

\* source_pk was replaced by the receiver's own public key, which gives the
\* same shared secret
ReceiverPkRejected ==
    /\ OpeningOf("seal_precomputed", "open_precomputed")
    /\ openCall.val.key = made.val.shared_secret
    /\ changed.some
    /\ changed.val.kind = "replace_pk"
    /\ \E a, b \in SecretKeys :
          /\ a # b
          /\ made.val.source_pk = public_key(a)
          /\ made.val.shared_secret = precompute(public_key(b), a)
          /\ openCall.val.self.source_pk = public_key(b)
          /\ precompute(public_key(a), b) = made.val.shared_secret
    /\ ~openRet.some

====
